---- MODULE Spec2Model ----
(***************************************************************************)
(* Model of scratch/evaluate_11ay_su_mimo.cc: the callbacks that drive the *)
(* SU-MIMO beamforming training of one EDMG STA with its EDMG PCP/AP.      *)
(*                                                                         *)
(* The program is single threaded: the ns-3 scheduler runs one callback at *)
(* a time, so every callback is one atomic action.  The state is the       *)
(* program's globals, the simulator clock with the calls the program has   *)
(* scheduled, and what the program has asked of the two MACs.              *)
(***************************************************************************)
EXTENDS Integers, Sequences, FiniteSets

(***************************************************************************)
(* Program constants.  Times are in microseconds.                          *)
(***************************************************************************)
BeamformedLinksThreshold == 2
DwellTime == 600000
ScheduleDelay == 3
BeaconInterval == 102400
Uint8Modulus == 256
DefaultKBestCombinations == 10
DefaultNumberOfTxCombinationsRequested == 10
\* Seconds (0.1), the time of the first throughput sample, in microseconds
FirstSampleTime == 100000
\* MilliSeconds (100), the time between two samples, in microseconds
SamplePeriod == 100000
\* the 0.101 s Simulator::Stop adds to the simulation time, in microseconds
StopMargin == 101000

(***************************************************************************)
(* Bounds of the model.                                                    *)
(***************************************************************************)
\* sector sweeps that complete in a run
MaxSls == 3
\* beacon intervals the run lasts after the first one that ends the dwell time
ExtraBeacons == 1
\* SNR values of a feedback map: 1..MaxSnr
MaxSnr == 2
\* transmission failures the remote station manager reports in a run
MaxFailures == 1
\* packets the two PHYs report (sent, received or dropped) in a run
MaxPackets == 1
\* candidates in a candidate list
MaxCandidates == 1
\* entries of a ranking queue
MaxQueue == 2
\* the --simulationTime of the run, in tenths of a second
SimulationTenths == 7
\* units of payload the packet sink receives in a run
MaxReceived == 1

AP == "AP"
STA == "STA"
Sides == {AP, STA}

CHANNEL_ACCESS_BHI == "CHANNEL_ACCESS_BHI"
CHANNEL_ACCESS_DTI == "CHANNEL_ACCESS_DTI"
AccessPeriods == {CHANNEL_ACCESS_BHI, CHANNEL_ACCESS_DTI}

(***************************************************************************)
(* The instants at which the STA's MAC opens a data transmission interval: *)
(* one per beacon interval around the end of the dwell time, and the       *)
(* instant the dwell time ends.                                            *)
(***************************************************************************)
DwellBeacon == (DwellTime \div BeaconInterval) + 1
DtiTimes ==
  {i * BeaconInterval : i \in (DwellBeacon - 1)..(DwellBeacon + ExtraBeacons)}
    \cup {DwellTime}

(***************************************************************************)
(* SISO feedback: MIMO_FEEDBACK_MAP, keyed by                              *)
(* (txSectorId, rxAntennaId, txAntennaId), one SNR per key.                *)
(***************************************************************************)
FeedbackKeys == {<<1, 1, 1>>, <<2, 1, 2>>}
FeedbackMaps == [FeedbackKeys -> 1..MaxSnr]
NominalFeedback == [key \in FeedbackKeys |-> key[1]]
numStreams == 2
AntennaCounts == 1..numStreams

\* feedback of sectors whose id is not the id of their antenna
SectorFeedbackKeys == {<<3, 1, 2>>, <<5, 1, 1>>, <<4, 2, 2>>}
SectorFeedbackMaps ==
  UNION {[keys -> 1..MaxSnr] : keys \in (SUBSET SectorFeedbackKeys) \ {{}}}

(***************************************************************************)
(* SISO measurements: SU_MIMO_SNR_MAP, a list of SNRs per key.             *)
(***************************************************************************)
MeasurementMaps ==
  {[key \in keys |-> <<1, MaxSnr>>] :
     keys \in {{key} : key \in FeedbackKeys} \cup {FeedbackKeys}}
NominalMeasurements == [key \in FeedbackKeys |-> <<1, MaxSnr>>]

(***************************************************************************)
(* MIMO candidates: Antenna2SectorList, for each of the antennas 1..n the  *)
(* list of its candidate sectors, one per candidate.  The MAC reports at   *)
(* least one antenna, and as many sectors for one antenna as for another;  *)
(* the lists here hold MaxCandidates candidates.                           *)
(***************************************************************************)
CandidateLists ==
  {[antenna \in 1..n |-> [candidate \in 1..MaxCandidates |-> candidate]] :
     n \in AntennaCounts}
NominalCandidates == [antenna \in 1..numStreams |-> <<antenna>>]

(***************************************************************************)
(* MIMO measurements.  The initiator tests its transmit combinations       *)
(* 1..TxCombinationsTested, each against rxCombinationsTested receive      *)
(* combinations; a measurement holds one SNR per pair of a transmit and a  *)
(* receive antenna.  A configuration of the queue names a transmit         *)
(* combination and, per receive antenna, the measurement taken with it.    *)
(***************************************************************************)
StreamSnrValues == {5, 12, 20}
TxCombinationsTested == 1
RxCombinationsTestedValues == {1, 2}
MimoMeasurementLists(rxCombinationsTested) ==
  [1..(TxCombinationsTested * rxCombinationsTested) ->
     [1..(numStreams * numStreams) -> StreamSnrValues]]
\* measurements with streams whose SNR is zero or negative
SignedSnrValues == {-1, 0, 5}
SignedMeasurementLists(rxCombinationsTested) ==
  [1..(TxCombinationsTested * rxCombinationsTested) ->
     [1..(numStreams * numStreams) -> SignedSnrValues]]
AwvIds(rxCombinationsTested) ==
  {<<txId, rxIds>> : txId \in 1..TxCombinationsTested,
                     rxIds \in [1..numStreams -> 1..rxCombinationsTested]}

VARIABLES
  csv,               \* the --csv flag
  useAwvs,           \* the --useAwvs flag
  kBestCombinations, \* the --kBestCombinations value
  firstDti,          \* global firstDti
  beamformedLinks,   \* global beamformedLinks (uint8_t)
  suMimoCompleted,   \* global suMimoCompleted
  now,               \* Simulator::Now (), microseconds
  scheduled,         \* due times of the scheduled StartSuMimoBeamforming calls
  associated,        \* staWifiMac->IsAssociated ()
  macCalls,          \* per MAC, how often each request has reached it
  slsCompletions,    \* per side, the data-period SLS completions delivered
  phase,             \* per side, the training phase the last request entered
  lastEvent,         \* the callback that ran last and what it did
  macTxDataFailed,   \* global macTxDataFailed (uint64_t)
  transmittedPackets, \* global transmittedPackets (uint64_t)
  droppedPackets,    \* global droppedPackets (uint64_t)
  receivedPackets,   \* global receivedPackets (uint64_t)
  files,             \* per trace file, its lines; a line is its fields
  activateApp,       \* the --activateApp flag
  samples,           \* due times of the scheduled CalculateThroughput calls
  stopped,           \* the event of Simulator::Stop has run
  totalRx,           \* global totalRx (uint64_t), the sink's total at the last sample
  throughput         \* global throughput, the sum of the samples

vars == <<csv, useAwvs, kBestCombinations, firstDti, beamformedLinks,
          suMimoCompleted, now, scheduled, associated, macCalls,
          slsCompletions, phase, lastEvent, macTxDataFailed,
          transmittedPackets, droppedPackets, receivedPackets, files,
          activateApp, samples, stopped, totalRx, throughput>>

config == <<csv, useAwvs, kBestCombinations>>
sequencer == <<firstDti, beamformedLinks, suMimoCompleted>>
statistics == <<macTxDataFailed, transmittedPackets, droppedPackets,
                receivedPackets>>
sampler == <<activateApp, samples, stopped, totalRx, throughput>>

(***************************************************************************)
(* DmgWifiMac::FindKBestCombinations, the K-best selection the SISO        *)
(* completion hands the feedback map to: the k entries with the highest    *)
(* SNR, highest first, ties broken by lowest txSector id, then lowest      *)
(* txAntenna id.                                                           *)
(***************************************************************************)
Better(feedbackMap, a, b) ==
  \/ feedbackMap[a] > feedbackMap[b]
  \/ /\ feedbackMap[a] = feedbackMap[b]
     /\ \/ a[1] < b[1]
        \/ a[1] = b[1] /\ a[3] < b[3]

RECURSIVE Ranked(_, _)
Ranked(feedbackMap, keys) ==
  IF keys = {} THEN <<>>
  ELSE LET best == CHOOSE a \in keys :
                     \A b \in keys \ {a} : Better(feedbackMap, a, b)
       IN  <<best>> \o Ranked(feedbackMap, keys \ {best})

FindKBestCombinations(k, nTx, nRx, feedbackMap) ==
  LET ranked == Ranked(feedbackMap, DOMAIN feedbackMap)
  IN  SubSeq(ranked, 1, IF k < Len(ranked) THEN k ELSE Len(ranked))

(***************************************************************************)
(* The trace files.  A file is the sequence of its lines, a line the       *)
(* sequence of its comma-separated fields (a line that ends with a comma   *)
(* has an empty last field).  The per-direction files carry the node id of *)
(* the direction's source in their name.                                   *)
(***************************************************************************)
NodeId(side) == IF side = AP THEN 0 ELSE 1

Peer(side) == IF side = AP THEN STA ELSE AP

\* one file per phase for both directions
TraceFileOfPhase(name, side) == <<name, 1>>

TraceFile(name, side) == <<name, NodeId(side) + 1>>

SlsFile == <<"slsResults", 0>>
ThroughputFile == <<"throughput_SU_MIMO.csv", 0>>

PhaseTraces == {"SuMimoSisoPhaseMeasurements", "SuMimoSisoPhaseResults",
                "SuMimoMimoTxCandidates", "SuMimoMimoRxCandidates",
                "SuMimoMimoPhaseMeasurements"}

FileNames ==
  {SlsFile, ThroughputFile}
    \cup {TraceFile(name, side) : name \in PhaseTraces, side \in Sides}

SlsHeader ==
  <<"SRC_ID", "DST_ID", "TRACE_IDX", "ANTENNA_ID_1", "SECTOR_ID_1",
    "AWV_ID_1", "ANTENNA_ID_2", "SECTOR_ID_2", "AWV_ID_2", "ROLE", "BSS_ID",
    "SNR", "Timestamp">>

SisoHeader ==
  <<"SRC_ID", "DST_ID", "TRACE_IDX", "RX_ANTENNA_ID", "TX_ANTENNA_ID",
    "TX_SECTOR_ID", "SNR", "Timestamp">>

\* Simulator::Now ().GetNanoSeconds () at model time t
GetNanoSeconds(t) == t * 1000

\* qdPropagationEngine->GetCurrentTraceIndex (): the run stays in the trace
\* the --traceIndex default selects
GetCurrentTraceIndex == 0

\* parameters->wifiMac->GetTypeOfStation ()
GetTypeOfStation(side) == IF side = AP THEN "DMG_AP" ELSE "DMG_STA"

\* RatioToDb: 10 log10 (ratio), in thousandths of a dB, of the ratios 1..20;
\* the logarithm of zero is minus infinity and that of a negative ratio is
\* not a number, which the stream prints as "-inf" and "nan"
RatioToDb(ratio) ==
  IF ratio = 0 THEN "-inf"
  ELSE IF ratio < 0 THEN "nan"
  ELSE
  <<0, 3010, 4771, 6021, 6990, 7782, 8451, 9031, 9542, 10000, 10414, 10792,
    11139, 11461, 11761, 12041, 12304, 12553, 12788, 13010>>[ratio]

\* AsciiTraceHelper::CreateFileStream: a new, empty file of that name
CreateFileStream(fileSystem, file) == [fileSystem EXCEPT ![file] = <<>>]

\* stream << line << std::endl
WriteLine(fileSystem, file, line) ==
  [fileSystem EXCEPT ![file] = Append(@, line)]

RECURSIVE WriteLines(_, _, _)
WriteLines(fileSystem, file, lines) ==
  IF lines = <<>> THEN fileSystem
  ELSE WriteLines(WriteLine(fileSystem, file, Head(lines)), file, Tail(lines))

\* the keys of a map in the order std::map iterates them
RECURSIVE Sorted(_)
Sorted(keys) ==
  IF keys = {} THEN <<>>
  ELSE LET first == CHOOSE a \in keys : \A b \in keys \ {a} :
                      \/ a[1] < b[1]
                      \/ a[1] = b[1] /\ a[2] < b[2]
                      \/ a[1] = b[1] /\ a[2] = b[2] /\ a[3] < b[3]
       IN  <<first>> \o Sorted(keys \ {first})

(***************************************************************************)
(* What a callback asks of the layers below: one record per call, in the   *)
(* order the callback makes them.                                          *)
(***************************************************************************)
Call(mac, fn, args) == [mac |-> mac, fn |-> fn, args |-> args]

Event(kind, side, input, console, calls) ==
  [kind |-> kind, side |-> side, input |-> input, console |-> console,
   calls |-> calls]

Phases == {"Idle", "SectorSweep", "SisoDiscovery", "MimoCandidateSelection",
           "MimoEvaluation", "Complete"}

KBestValues == {1, DefaultKBestCombinations}

(***************************************************************************)
(* The state when Simulator::Run () starts.  Init is a run with the        *)
(* default --useAwvs and --kBestCombinations and either value of --csv;    *)
(* InitSiso is a run with any of the values of the three.  Both run with   *)
(* --activateApp=false, without application and throughput samples;        *)
(* InitSampler is Init with either value of --activateApp.                 *)
(***************************************************************************)
Globals ==
  /\ firstDti = TRUE
  /\ beamformedLinks = 0
  /\ suMimoCompleted = FALSE
  /\ now = 0
  /\ scheduled = {}
  /\ associated = FALSE
  /\ macCalls = [Perform_TXSS_TXOP |-> 0, StartSuMimoBeamforming |-> 0]
  /\ slsCompletions = [s \in Sides |-> 0]
  /\ phase = [s \in Sides |-> "Idle"]
  /\ lastEvent = Event("none", "none", <<>>, "", <<>>)
  /\ macTxDataFailed = 0
  /\ transmittedPackets = 0
  /\ droppedPackets = 0
  /\ receivedPackets = 0
  /\ files = [file \in FileNames |->
                IF file = SlsFile THEN <<SlsHeader>> ELSE <<>>]
  /\ samples = IF activateApp THEN <<FirstSampleTime>> ELSE <<>>
  /\ totalRx = 0
  /\ throughput = 0
  /\ stopped = FALSE

Init ==
  /\ csv \in BOOLEAN
  /\ useAwvs = FALSE
  /\ kBestCombinations = DefaultKBestCombinations
  /\ activateApp = FALSE
  /\ Globals

InitSampler ==
  /\ csv \in BOOLEAN
  /\ useAwvs = FALSE
  /\ kBestCombinations = DefaultKBestCombinations
  /\ activateApp \in BOOLEAN
  /\ Globals

InitSiso ==
  /\ csv \in BOOLEAN
  /\ useAwvs \in BOOLEAN
  /\ kBestCombinations \in KBestValues
  /\ activateApp = FALSE
  /\ Globals

(***************************************************************************)
(* The STA's MAC reports the association with the PCP/AP (the Assoc trace  *)
(* source); from then on IsAssociated () is true.                          *)
(***************************************************************************)
StationAssoicated ==
  /\ ~associated
  /\ associated' = TRUE
  /\ lastEvent' = Event("StationAssoicated", STA, <<>>,
                        IF csv THEN "" ELSE "associated", <<>>)
  /\ UNCHANGED <<config, sampler, statistics, files, sequencer, now, scheduled, macCalls, slsCompletions,
                 phase>>

(***************************************************************************)
(* SLSCompleted, bound to both MACs.                                       *)
(***************************************************************************)
\* the count without its test of the access period
CountsAnyAccessPeriod(csvFlag, accessPeriod) == ~csvFlag

CountsAsBeamformedLink(csvFlag, accessPeriod) ==
  ~csvFlag /\ accessPeriod = CHANNEL_ACCESS_DTI

\* attributes.sectorID and attributes.antennaID of the completions
BestSector == 1
BestAntenna == 1

SlsRow(side, sectorID, antennaID, time) ==
  <<NodeId(side) + 1, NodeId(Peer(side)) + 1, GetCurrentTraceIndex,
    sectorID, antennaID, GetTypeOfStation(side), NodeId(AP) + 1,
    GetNanoSeconds(time)>>

SLSCompleted(side, accessPeriod) ==
  /\ files' = WriteLine(files, SlsFile,
                        SlsRow(side, BestSector, BestAntenna, now))
  /\ beamformedLinks' =
       IF CountsAsBeamformedLink(csv, accessPeriod)
       THEN (beamformedLinks + 1) % Uint8Modulus
       ELSE beamformedLinks
  /\ slsCompletions' =
       IF accessPeriod = CHANNEL_ACCESS_DTI
       THEN [slsCompletions EXCEPT ![side] = @ + 1]
       ELSE slsCompletions
  /\ lastEvent' = Event("SLSCompleted", side, <<accessPeriod>>,
                        IF csv THEN "" ELSE "completed SLS phase", <<>>)
  /\ UNCHANGED <<config, sampler, statistics, firstDti, suMimoCompleted, now, scheduled,
                 associated, macCalls, phase>>

(***************************************************************************)
(* DataTransmissionIntervalStarted, bound to the STA's MAC only.           *)
(***************************************************************************)
TxssCondition(isAssociated, first) == isAssociated /\ first

\* the handler with line 383 lost: firstDti is left set
FirstDtiLeftSet == TRUE

FirstDtiAfterTxss == FALSE

\* the trigger without its test of the link count
TriggerWithoutLinks(links, time, completed) == time > DwellTime /\ ~completed

TriggerCondition(links, time, completed) ==
  /\ links = BeamformedLinksThreshold
  /\ time > DwellTime
  /\ ~completed

DataTransmissionIntervalStarted(t) ==
  LET txss == TxssCondition(associated, firstDti)
      trigger == TriggerCondition(beamformedLinks, t, suMimoCompleted)
  IN
  /\ t > now
  /\ \A due \in scheduled : t <= due
  /\ \A i \in 1..Len(samples) : t <= samples[i]
  /\ now' = t
  /\ firstDti' = IF txss THEN FirstDtiAfterTxss ELSE firstDti
  /\ macCalls' = IF txss
                 THEN [macCalls EXCEPT !.Perform_TXSS_TXOP = @ + 1]
                 ELSE macCalls
  /\ phase' = IF txss THEN [phase EXCEPT ![STA] = "SectorSweep"] ELSE phase
  /\ scheduled' = IF trigger
                  THEN scheduled \cup {t + ScheduleDelay}
                  ELSE scheduled
  /\ lastEvent' =
       Event("DataTransmissionIntervalStarted", STA, <<t>>,
             IF trigger THEN "initiating SU-MIMO BFT" ELSE "",
             (IF txss THEN <<Call(STA, "Perform_TXSS_TXOP", <<AP>>)>>
              ELSE <<>>)
             \o
             (IF trigger
              THEN <<Call("Simulator", "Schedule",
                          <<ScheduleDelay, "StartSuMimoBeamforming">>)>>
              ELSE <<>>))
  /\ UNCHANGED <<config, sampler, statistics, files, beamformedLinks, suMimoCompleted, associated,
                 slsCompletions>>

(***************************************************************************)
(* The simulator runs the call DataTransmissionIntervalStarted scheduled:  *)
(* DmgWifiMac::StartSuMimoBeamforming on the STA's MAC.                    *)
(***************************************************************************)
StartSuMimoBeamforming ==
  /\ scheduled # {}
  /\ LET due == CHOOSE d \in scheduled : \A e \in scheduled : d <= e
     IN  /\ \A i \in 1..Len(samples) : due < samples[i]
         /\ now' = due
         /\ scheduled' = scheduled \ {due}
  /\ macCalls' = [macCalls EXCEPT !.StartSuMimoBeamforming = @ + 1]
  /\ phase' = [phase EXCEPT ![STA] = "SisoDiscovery"]
  /\ lastEvent' = Event("StartSuMimoBeamforming", STA, <<>>, "",
                        <<Call(STA, "StartSuMimoBeamforming", <<AP, TRUE>>)>>)
  /\ UNCHANGED <<config, sampler, statistics, files, sequencer, associated, slsCompletions>>

(***************************************************************************)
(* SuMimoSisoPhaseComplete, bound to both MACs.                            *)
(***************************************************************************)
\* both SLS_PARAMETERS given the STA's MAC
WifiMacOfSta(side) == STA

\* parameters->wifiMac of the SLS_PARAMETERS bound to the callbacks of a side
WifiMacOf(side) == side

\* the handler with the erase of line 241 in effect: the head of the list
\* is dropped before the request
ShortlistErased(mimoCandidates) ==
  IF mimoCandidates = <<>> THEN <<>> ELSE Tail(mimoCandidates)

ShortlistPassed(mimoCandidates) == mimoCandidates

SisoCompleteCalls(side, feedbackMap, nTx, nRx) ==
  LET mimoCandidates ==
        FindKBestCombinations(kBestCombinations, nTx, nRx, feedbackMap)
  IN  <<Call(WifiMacOf(side), "FindKBestCombinations",
             <<kBestCombinations, nTx, nRx, feedbackMap>>)>>
      \o (IF useAwvs
          THEN <<Call(WifiMacOf(side), "AppendAwvsForSuMimoBFT_27", <<>>)>>
          ELSE <<>>)
      \o <<Call(WifiMacOf(side), "StartSuMimoMimoPhase",
                <<Peer(side), ShortlistPassed(mimoCandidates),
                  DefaultNumberOfTxCombinationsRequested, useAwvs>>)>>

SisoResultRow(side, key, snr, time) ==
  <<NodeId(side) + 1, NodeId(Peer(side)) + 1, GetCurrentTraceIndex,
    key[2], key[1], key[3], RatioToDb(snr), GetNanoSeconds(time)>>

SisoResultRows(side, feedbackMap, time) ==
  LET keys == Sorted(DOMAIN feedbackMap)
  IN  [i \in 1..Len(keys) |->
         SisoResultRow(side, keys[i], feedbackMap[keys[i]], time)]

SuMimoSisoPhaseComplete(side, feedbackMap, nTx, nRx) ==
  /\ files' =
       LET outputSisoPhase == TraceFile("SuMimoSisoPhaseResults", side)
       IN  WriteLines(CreateFileStream(files, outputSisoPhase),
                      outputSisoPhase,
                      <<SisoHeader>> \o SisoResultRows(side, feedbackMap, now))
  /\ phase' = [phase EXCEPT ![WifiMacOf(side)] = "MimoEvaluation"]
  /\ lastEvent' = Event("SuMimoSisoPhaseComplete", side,
                        <<feedbackMap, nTx, nRx>>, "finished SISO phase",
                        SisoCompleteCalls(side, feedbackMap, nTx, nRx))
  /\ UNCHANGED <<config, sampler, statistics, sequencer, now, scheduled, associated, macCalls,
                 slsCompletions>>

(***************************************************************************)
(* SuMimoSisoPhaseMeasurements, bound to both MACs.  measurementsMap maps  *)
(* a key to the list of the SNRs measured for it; the row of an SNR        *)
(* carries the second and third member of the key and awv / edmgTrnN,      *)
(* where awv counts the SNRs of the key from 1.                            *)
(***************************************************************************)
SisoMeasurementRows(side, key, snrs, edmgTrnN, time) ==
  [awv \in 1..Len(snrs) |->
     <<NodeId(side) + 1, NodeId(Peer(side)) + 1, GetCurrentTraceIndex,
       key[2], key[3], awv \div edmgTrnN, RatioToDb(snrs[awv]),
       GetNanoSeconds(time)>>]

RECURSIVE SisoMeasurementLines(_, _, _, _, _)
SisoMeasurementLines(side, keys, measurementsMap, edmgTrnN, time) ==
  IF keys = <<>> THEN <<>>
  ELSE SisoMeasurementRows(side, Head(keys), measurementsMap[Head(keys)],
                           edmgTrnN, time)
       \o SisoMeasurementLines(side, Tail(keys), measurementsMap, edmgTrnN,
                               time)

SuMimoSisoPhaseMeasurements(side, measurementsMap, edmgTrnN) ==
  /\ files' =
       LET outputSisoPhase == TraceFile("SuMimoSisoPhaseMeasurements", side)
       IN  WriteLines(CreateFileStream(files, outputSisoPhase),
                      outputSisoPhase,
                      <<SisoHeader>>
                        \o SisoMeasurementLines(side,
                              Sorted(DOMAIN measurementsMap),
                              measurementsMap, edmgTrnN, now))
  /\ lastEvent' = Event("SuMimoSisoPhaseMeasurements", side,
                        <<measurementsMap, edmgTrnN>>,
                        "reporting SISO phase measurements", <<>>)
  /\ UNCHANGED <<config, sampler, statistics, sequencer, now, scheduled, associated,
                 macCalls, slsCompletions, phase>>

(***************************************************************************)
(* SuMimoMimoCandidatesSelected, bound to both MACs.  A candidate list     *)
(* (Antenna2SectorList) maps the antenna ids 1..n to the list of the       *)
(* sectors selected for the antenna; candidate i is the i-th sector of     *)
(* every antenna.  Both tables take their number of antenna columns from   *)
(* txCandidates; every line ends with a comma.                             *)
(***************************************************************************)
\* "ANTENNA_ID" << i, "SECTOR_ID" << i and "AWV_ID" << i, and the same
\* after "TX_" and "RX_", for the numbers i of the antennas of a station
Numbered(name, i) ==
  CASE name = "ANTENNA_ID" ->
         <<"ANTENNA_ID1", "ANTENNA_ID2", "ANTENNA_ID3", "ANTENNA_ID4">>[i]
    [] name = "SECTOR_ID" ->
         <<"SECTOR_ID1", "SECTOR_ID2", "SECTOR_ID3", "SECTOR_ID4">>[i]
    [] name = "TX_ANTENNA_ID" ->
         <<"TX_ANTENNA_ID1", "TX_ANTENNA_ID2", "TX_ANTENNA_ID3",
           "TX_ANTENNA_ID4">>[i]
    [] name = "TX_SECTOR_ID" ->
         <<"TX_SECTOR_ID1", "TX_SECTOR_ID2", "TX_SECTOR_ID3",
           "TX_SECTOR_ID4">>[i]
    [] name = "TX_AWV_ID" ->
         <<"TX_AWV_ID1", "TX_AWV_ID2", "TX_AWV_ID3", "TX_AWV_ID4">>[i]
    [] name = "RX_ANTENNA_ID" ->
         <<"RX_ANTENNA_ID1", "RX_ANTENNA_ID2", "RX_ANTENNA_ID3",
           "RX_ANTENNA_ID4">>[i]
    [] name = "RX_SECTOR_ID" ->
         <<"RX_SECTOR_ID1", "RX_SECTOR_ID2", "RX_SECTOR_ID3",
           "RX_SECTOR_ID4">>[i]
    [] name = "RX_AWV_ID" ->
         <<"RX_AWV_ID1", "RX_AWV_ID2", "RX_AWV_ID3", "RX_AWV_ID4">>[i]

RECURSIVE CandidatesHeaderColumns(_)
CandidatesHeaderColumns(numberOfAntennas) ==
  IF numberOfAntennas = 0 THEN <<>>
  ELSE CandidatesHeaderColumns(numberOfAntennas - 1)
       \o <<Numbered("ANTENNA_ID", numberOfAntennas),
            Numbered("SECTOR_ID", numberOfAntennas)>>

CandidatesHeader(numberOfAntennas) ==
  <<"SRC_ID", "DST_ID", "TRACE_IDX">>
    \o CandidatesHeaderColumns(numberOfAntennas) \o <<"">>

RECURSIVE CandidateColumns(_, _, _)
CandidateColumns(candidates, antenna, i) ==
  IF antenna = 0 THEN <<>>
  ELSE CandidateColumns(candidates, antenna - 1, i)
       \o <<antenna, candidates[antenna][i]>>

CandidateRows(side, candidates) ==
  LET numberOfCandidates == Len(candidates[1])
  IN  [i \in 1..numberOfCandidates |->
         <<NodeId(side) + 1, NodeId(Peer(side)) + 1, GetCurrentTraceIndex>>
           \o CandidateColumns(candidates, Len(candidates), i) \o <<"">>]

CandidateFiles(fileSystem, side, txCandidates, rxCandidates) ==
  LET outputMimoTxCandidates == TraceFile("SuMimoMimoTxCandidates", side)
      outputMimoRxCandidates == TraceFile("SuMimoMimoRxCandidates", side)
      numberOfAntennas == Len(txCandidates)
      withTx ==
        WriteLines(CreateFileStream(fileSystem, outputMimoTxCandidates),
                   outputMimoTxCandidates,
                   <<CandidatesHeader(numberOfAntennas)>>
                     \o CandidateRows(side, txCandidates))
  IN  WriteLines(CreateFileStream(withTx, outputMimoRxCandidates),
                 outputMimoRxCandidates,
                 <<CandidatesHeader(numberOfAntennas)>>
                   \o CandidateRows(side, rxCandidates))

\* the handler taking the selection for one more beamformed link
SuMimoMimoCandidatesCounted(side, txCandidates, rxCandidates) ==
  /\ files' = CandidateFiles(files, side, txCandidates, rxCandidates)
  /\ beamformedLinks' = (beamformedLinks + 1) % Uint8Modulus
  /\ lastEvent' = Event("SuMimoMimoCandidatesSelected", side,
                        <<txCandidates, rxCandidates>>,
                        "reporting MIMO candidates Selection", <<>>)
  /\ UNCHANGED <<config, sampler, statistics, firstDti, suMimoCompleted, now,
                 scheduled, associated, macCalls, slsCompletions, phase>>

SuMimoMimoCandidatesSelected(side, txCandidates, rxCandidates) ==
  /\ files' = CandidateFiles(files, side, txCandidates, rxCandidates)
  /\ lastEvent' = Event("SuMimoMimoCandidatesSelected", side,
                        <<txCandidates, rxCandidates>>,
                        "reporting MIMO candidates Selection", <<>>)
  /\ UNCHANGED <<config, sampler, statistics, sequencer, now, scheduled, associated,
                 macCalls, slsCompletions, phase>>

(***************************************************************************)
(* SuMimoMimoPhaseMeasurements, bound to both MACs.  mimoMeasurements is   *)
(* the list of the measurements, each the list of its SNRs; minSnr, the    *)
(* ranking queue, holds entries <<key, <<txId, rxIds>>>>, rxIds the list   *)
(* of the receive configurations of the entry.  The loop writes one row    *)
(* for the top of the queue and pops it, until the queue is empty.         *)
(***************************************************************************)
\* std::pair's operator< on the entries of the queue
RECURSIVE LexLess(_, _)
LexLess(a, b) ==
  /\ b # <<>>
  /\ \/ a = <<>>
     \/ Head(a) < Head(b)
     \/ Head(a) = Head(b) /\ LexLess(Tail(a), Tail(b))

Flat(entry) == <<entry[1], entry[2][1]>> \o entry[2][2]

\* minSnr.top (): an entry no entry of the queue is greater than
Top(minSnr) ==
  CHOOSE entry \in minSnr :
    \A other \in minSnr : ~LexLess(Flat(entry), Flat(other))

\* minSnr.pop ()
Pop(minSnr) == minSnr \ {Top(minSnr)}

\* the codebook's configuration of a transmit or receive combination:
\* for each antenna <<<<antenna, sector>>, awv>>
GetMimoConfigFromTxAwvId(txId, nTxAntennas) ==
  [i \in 1..nTxAntennas |-> <<(<<i, txId>>), 0>>]

GetMimoConfigFromRxAwvId(rxIds, nRxAntennas) ==
  [i \in 1..nRxAntennas |-> <<(<<i, rxIds[i]>>), 0>>]

RECURSIVE MimoTxHeaderColumns(_)
MimoTxHeaderColumns(n) ==
  IF n = 0 THEN <<>>
  ELSE MimoTxHeaderColumns(n - 1)
       \o <<Numbered("TX_ANTENNA_ID", n), Numbered("TX_SECTOR_ID", n),
            Numbered("TX_AWV_ID", n)>>

RECURSIVE MimoRxHeaderColumns(_)
MimoRxHeaderColumns(n) ==
  IF n = 0 THEN <<>>
  ELSE MimoRxHeaderColumns(n - 1)
       \o <<Numbered("RX_ANTENNA_ID", n), Numbered("RX_SECTOR_ID", n),
            Numbered("RX_AWV_ID", n)>>

MimoHeader(nTxAntennas, nRxAntennas) ==
  <<"SRC_ID", "DST_ID", "TRACE_IDX">>
    \o MimoTxHeaderColumns(nTxAntennas)
    \o MimoRxHeaderColumns(nRxAntennas)
    \o [i \in 1..(nRxAntennas * nTxAntennas) |-> "SNR"]
    \o <<"min_Stream_SNR">>

RECURSIVE ConfigColumns(_, _)
ConfigColumns(combination, n) ==
  IF n = 0 THEN <<>>
  ELSE ConfigColumns(combination, n - 1)
       \o <<combination[n][1][1], combination[n][1][2], combination[n][2]>>

\* the index that counts the transmit antennas only
SnrIndexOfTx(i, j, nRxAntennas) == i

\* measurements.at (j).second.at (snrIndex), snrIndex counting the pairs
\* (i, j) in the order of the two loops; i, j and the index count from 0
SnrIndex(i, j, nRxAntennas) == i * nRxAntennas + j

StreamSnrs(measurements, nTxAntennas, nRxAntennas) ==
  [n \in 1..(nTxAntennas * nRxAntennas) |->
     LET i == (n - 1) \div nRxAntennas
         j == (n - 1) % nRxAntennas
     IN  measurements[j + 1][SnrIndex(i, j, nRxAntennas) + 1]]

MimoMeasurementRow(side, entry, mimoMeasurements, nTxAntennas, nRxAntennas, rxCombinationsTested) ==
  LET awvId == entry[2]
      txId == awvId[1]
      rxCombination == GetMimoConfigFromRxAwvId(awvId[2], nRxAntennas)
      txCombination == GetMimoConfigFromTxAwvId(txId, nTxAntennas)
      measurements ==
        [r \in 1..Len(awvId[2]) |->
           mimoMeasurements[(txId - 1) * rxCombinationsTested + awvId[2][r]]]
      snrs == StreamSnrs(measurements, nTxAntennas, nRxAntennas)
  IN  <<NodeId(side) + 1, NodeId(Peer(side)) + 1, GetCurrentTraceIndex>>
        \o ConfigColumns(txCombination, nTxAntennas)
        \o ConfigColumns(rxCombination, nRxAntennas)
        \o [n \in 1..Len(snrs) |-> RatioToDb(snrs[n])]
        \o <<RatioToDb(entry[1])>>

\* the loop writing the row of the top of the queue last
RECURSIVE MimoMeasurementRowsReversed(_, _, _, _, _, _)
MimoMeasurementRowsReversed(side, minSnr, mimoMeasurements, nTxAntennas, nRxAntennas, rxCombinationsTested) ==
  IF minSnr = {} THEN <<>>
  ELSE MimoMeasurementRowsReversed(side, Pop(minSnr), mimoMeasurements,
                                   nTxAntennas, nRxAntennas,
                                   rxCombinationsTested)
       \o <<MimoMeasurementRow(side, Top(minSnr), mimoMeasurements,
                               nTxAntennas, nRxAntennas,
                               rxCombinationsTested)>>

\* the loop leaving out the entries whose key is not positive
RECURSIVE MimoMeasurementRowsPositive(_, _, _, _, _, _)
MimoMeasurementRowsPositive(side, minSnr, mimoMeasurements, nTxAntennas, nRxAntennas, rxCombinationsTested) ==
  IF minSnr = {} THEN <<>>
  ELSE (IF Top(minSnr)[1] > 0
        THEN <<MimoMeasurementRow(side, Top(minSnr), mimoMeasurements,
                                  nTxAntennas, nRxAntennas,
                                  rxCombinationsTested)>>
        ELSE <<>>)
       \o MimoMeasurementRowsPositive(side, Pop(minSnr), mimoMeasurements,
                                      nTxAntennas, nRxAntennas,
                                      rxCombinationsTested)

RECURSIVE MimoMeasurementRows(_, _, _, _, _, _)
MimoMeasurementRows(side, minSnr, mimoMeasurements, nTxAntennas, nRxAntennas, rxCombinationsTested) ==
  IF minSnr = {} THEN <<>>
  ELSE <<MimoMeasurementRow(side, Top(minSnr), mimoMeasurements, nTxAntennas,
                            nRxAntennas, rxCombinationsTested)>>
       \o MimoMeasurementRows(side, Pop(minSnr), mimoMeasurements,
                              nTxAntennas, nRxAntennas, rxCombinationsTested)

SuMimoMimoPhaseMeasurements(side, mimoMeasurements, minSnr, nTxAntennas, nRxAntennas, rxCombinationsTested) ==
  /\ files' =
       LET outputMimoPhase == TraceFile("SuMimoMimoPhaseMeasurements", side)
       IN  WriteLines(CreateFileStream(files, outputMimoPhase),
                      outputMimoPhase,
                      <<MimoHeader(nTxAntennas, nRxAntennas)>>
                        \o MimoMeasurementRows(side, minSnr,
                              mimoMeasurements, nTxAntennas, nRxAntennas,
                              rxCombinationsTested))
  /\ lastEvent' = Event("SuMimoMimoPhaseMeasurements", side,
                        <<mimoMeasurements, minSnr, nTxAntennas, nRxAntennas,
                          rxCombinationsTested>>,
                        "reporting MIMO phase measurements", <<>>)
  /\ UNCHANGED <<config, sampler, statistics, sequencer, now, scheduled, associated,
                 macCalls, slsCompletions, phase>>

(***************************************************************************)
(* SuMimoMimoPhaseComplete, bound to both MACs.                            *)
(***************************************************************************)
SuMimoMimoPhaseComplete(side) ==
  /\ suMimoCompleted' = TRUE
  /\ phase' = [phase EXCEPT ![side] = "Complete"]
  /\ lastEvent' = Event("SuMimoMimoPhaseComplete", side, <<>>,
                        "finished MIMO phase", <<>>)
  /\ UNCHANGED <<config, sampler, statistics, files, firstDti, beamformedLinks, now, scheduled,
                 associated, macCalls, slsCompletions>>

(***************************************************************************)
(* The counters of the statistics.  MacTxDataFailed is connected to the    *)
(* STA's remote station manager, PhyTxEnd to the STA's PHY, PhyRxEnd and   *)
(* PhyRxDrop to the AP's PHY.  The counters are uint64_t; the runs of the  *)
(* model stay far below 2^64 reports.                                      *)
(***************************************************************************)
\* the handler counting a failure twice
IncrementedTwice(counter) == counter + 2

Incremented(counter) == counter + 1

PacketsReported == transmittedPackets + droppedPackets + receivedPackets

MacTxDataFailed ==
  /\ macTxDataFailed < MaxFailures
  /\ macTxDataFailed' = Incremented(macTxDataFailed)
  /\ lastEvent' = Event("MacTxDataFailed", STA, <<>>, "", <<>>)
  /\ UNCHANGED <<config, sampler, files, sequencer, now, scheduled, associated, macCalls,
                 slsCompletions, phase, transmittedPackets, droppedPackets,
                 receivedPackets>>

PhyTxEnd ==
  /\ PacketsReported < MaxPackets
  /\ transmittedPackets' = transmittedPackets + 1
  /\ lastEvent' = Event("PhyTxEnd", STA, <<>>, "", <<>>)
  /\ UNCHANGED <<config, sampler, files, sequencer, now, scheduled, associated, macCalls,
                 slsCompletions, phase, macTxDataFailed, droppedPackets,
                 receivedPackets>>

PhyRxDrop ==
  /\ PacketsReported < MaxPackets
  /\ droppedPackets' = droppedPackets + 1
  /\ lastEvent' = Event("PhyRxDrop", AP, <<>>, "", <<>>)
  /\ UNCHANGED <<config, sampler, files, sequencer, now, scheduled, associated, macCalls,
                 slsCompletions, phase, macTxDataFailed, transmittedPackets,
                 receivedPackets>>

PhyRxEnd ==
  /\ PacketsReported < MaxPackets
  /\ receivedPackets' = receivedPackets + 1
  /\ lastEvent' = Event("PhyRxEnd", AP, <<>>, "", <<>>)
  /\ UNCHANGED <<config, sampler, files, sequencer, now, scheduled, associated, macCalls,
                 slsCompletions, phase, macTxDataFailed, transmittedPackets,
                 droppedPackets>>

(***************************************************************************)
(* The throughput sampler.  CalculateThroughput writes one row, the time   *)
(* in tenths of a second and the throughput of the last interval, and      *)
(* schedules itself again; the simulator runs it when it is due, after     *)
(* every event due earlier.  Simulator::Stop ends the run: no event due    *)
(* at or after the stop time runs.                                         *)
(***************************************************************************)
StopTime == SimulationTenths * SamplePeriod + StopMargin

\* to_string_with_precision (Simulator::Now ().GetSeconds (), 1), in tenths
Tenths(t) == (t + 50000) \div 100000

\* the payload the sink receives in one interval, in units of 12500
\* bytes, which are a throughput of 1 Mbps over the interval; the sink
\* receives at most MaxReceived units in a run
Throughputs == 0..MaxReceived

\* CalculateSingleStreamThroughput (packetSink, totalRx, throughput): the
\* accumulators after a sample in whose interval the sink received thr
LastTotalRx(lastTotalRx, thr) == lastTotalRx + thr
AverageThroughput(averageThroughput, thr) == averageThroughput + thr

\* the handler scheduling two samples
RescheduledTwice(pending, t) ==
  pending \o <<t + SamplePeriod, t + SamplePeriod>>

Rescheduled(pending, t) == Append(pending, t + SamplePeriod)

\* what a sample does to the sampler, the clock and the throughput trace
Sample(thr) ==
  /\ samples # <<>>
  /\ LET due == Head(samples)
     IN  /\ due >= now
         /\ due < StopTime
         /\ \A d \in scheduled : due <= d
         /\ now' = due
         /\ files' = WriteLine(files, ThroughputFile, <<Tenths(due), thr>>)
         /\ samples' = Rescheduled(Tail(samples), due)
  /\ totalRx + thr <= MaxReceived
  /\ totalRx' = LastTotalRx(totalRx, thr)
  /\ throughput' = AverageThroughput(throughput, thr)
  /\ lastEvent' = Event("CalculateThroughput", "none", <<thr>>,
                        "throughput",
                        <<Call("Simulator", "Schedule",
                               <<SamplePeriod, "CalculateThroughput">>)>>)
  /\ UNCHANGED <<config, activateApp, stopped, statistics,
                 scheduled, associated, macCalls, slsCompletions, phase>>

\* a sample that counts as a beamformed link
CalculateThroughputCounting(thr) ==
  /\ Sample(thr)
  /\ beamformedLinks' = (beamformedLinks + 1) % Uint8Modulus
  /\ UNCHANGED <<firstDti, suMimoCompleted>>

CalculateThroughput(thr) ==
  /\ Sample(thr)
  /\ UNCHANGED sequencer

SimulatorStop ==
  /\ ~stopped
  /\ now <= StopTime
  /\ \A d \in scheduled : StopTime <= d
  /\ \A i \in 1..Len(samples) : StopTime <= samples[i]
  /\ stopped' = TRUE
  /\ now' = StopTime
  /\ lastEvent' = Event("Simulator::Stop", "none", <<>>, "", <<>>)
  /\ UNCHANGED <<config, activateApp, samples, totalRx, throughput,
                 statistics, files, sequencer,
                 scheduled, associated, macCalls, slsCompletions, phase>>

(***************************************************************************)
(* The ranking queue the MAC delivers with the measurements of the MIMO    *)
(* phase: for each configuration it ranks, the key is the minimum of the   *)
(* SNRs of the streams of the configuration (max-min criterion).           *)
(***************************************************************************)
Min(values) == CHOOSE v \in values : \A w \in values : v <= w

PerStreamSnr(mimoMeasurements, awvId, rxCombinationsTested) ==
  LET measurements ==
        [r \in 1..Len(awvId[2]) |->
           mimoMeasurements[(awvId[1] - 1) * rxCombinationsTested
                              + awvId[2][r]]]
  IN  [n \in 1..(numStreams * numStreams) |->
         measurements[((n - 1) % numStreams) + 1][n]]

RankByMinStreamSnr(mimoMeasurements, awvIds, rxCombinationsTested) ==
  {<<Min({PerStreamSnr(mimoMeasurements, awvId, rxCombinationsTested)[n] :
            n \in 1..(numStreams * numStreams)}), awvId>> : awvId \in awvIds}

NominalMimoMeasurements == <<(<<12, 12, 12, 12>>), (<<20, 5, 20, 5>>)>>
NominalAwvIds == {<<1, (<<1, 1>>)>>, <<1, (<<2, 2>>)>>}

(***************************************************************************)
(* The SU-MIMO phases alone, with every feedback map and antenna count.    *)
(***************************************************************************)
NextSiso ==
  \/ \E side \in Sides, feedbackMap \in FeedbackMaps,
        nTx \in AntennaCounts, nRx \in AntennaCounts :
       SuMimoSisoPhaseComplete(side, feedbackMap, nTx, nRx)
  \/ \E side \in Sides : SuMimoMimoPhaseComplete(side)

SpecSiso == InitSiso /\ [][NextSiso]_vars

(***************************************************************************)
(* The completion of the SISO phase alone, with feedback of one, two or    *)
(* three combinations whose sector ids differ from their antenna ids.      *)
(***************************************************************************)
NextSisoResults ==
  \E side \in Sides, feedbackMap \in SectorFeedbackMaps :
    SuMimoSisoPhaseComplete(side, feedbackMap, numStreams, numStreams)

SpecSisoResults == InitSiso /\ [][NextSisoResults]_vars

(***************************************************************************)
(* A run has at most MaxSls sector-sweep completions.                      *)
(***************************************************************************)
SlsPending == Len(files[SlsFile]) < 1 + MaxSls

(***************************************************************************)
(* The run in which the MAC delivers the completions of a session in the   *)
(* order of the phases it was asked to run: the sector sweeps of the       *)
(* beacon header interval complete before the data-period sweep is         *)
(* requested, a data-period sector sweep completes only after that, the    *)
(* SISO completion comes only while the combination training it was asked  *)
(* for is running, the MIMO completion only while the MIMO evaluation it   *)
(* was asked for is running.                                               *)
(***************************************************************************)
NextOrdered ==
  \/ StationAssoicated
  \/ /\ macCalls.Perform_TXSS_TXOP = 0
     /\ SlsPending
     /\ \E side \in Sides : SLSCompleted(side, CHANNEL_ACCESS_BHI)
  \/ /\ macCalls.Perform_TXSS_TXOP > 0
     /\ SlsPending
     /\ \E side \in Sides : SLSCompleted(side, CHANNEL_ACCESS_DTI)
  \/ \E t \in DtiTimes : DataTransmissionIntervalStarted(t)
  \/ StartSuMimoBeamforming
  \/ /\ phase[STA] = "SisoDiscovery"
     /\ SuMimoSisoPhaseComplete(STA, NominalFeedback, numStreams, numStreams)
  \/ /\ phase[STA] = "MimoEvaluation"
     /\ SuMimoMimoPhaseComplete(STA)

SpecOrdered == Init /\ [][NextOrdered]_vars

(***************************************************************************)
(* The ordered run with the callbacks of both MACs: the AP's MAC, the      *)
(* responder of the training, reports the end of the SISO phase while the  *)
(* combination training is running and the end of the MIMO phase while the *)
(* MIMO evaluation is running.                                             *)
(***************************************************************************)
Next ==
  \/ NextOrdered
  \/ /\ phase[STA] = "SisoDiscovery"
     /\ SuMimoSisoPhaseComplete(AP, NominalFeedback, numStreams, numStreams)
  \/ /\ phase[STA] = "MimoEvaluation"
     /\ SuMimoMimoPhaseComplete(AP)

Spec == Init /\ [][Next]_vars

(***************************************************************************)
(* The measurements of a MIMO phase alone, with every list of measurements *)
(* and every ranking queue of up to MaxQueue of the configurations.        *)
(***************************************************************************)
NextRanking ==
  /\ lastEvent.kind = "none"
  /\ \E rxCombinationsTested \in RxCombinationsTestedValues :
       \E mimoMeasurements \in MimoMeasurementLists(rxCombinationsTested),
          awvIds \in SUBSET AwvIds(rxCombinationsTested) :
         /\ Cardinality(awvIds) <= MaxQueue
         /\ SuMimoMimoPhaseMeasurements(STA, mimoMeasurements,
              RankByMinStreamSnr(mimoMeasurements, awvIds,
                                 rxCombinationsTested),
              numStreams, numStreams, rxCombinationsTested)

SpecRanking == Init /\ [][NextRanking]_vars

(***************************************************************************)
(* The measurements of a MIMO phase alone, with streams whose SNR is zero  *)
(* or negative, two receive combinations tested and every ranking queue of *)
(* up to MaxQueue of the configurations.                                   *)
(***************************************************************************)
NextDrain ==
  /\ lastEvent.kind = "none"
  /\ \E mimoMeasurements \in SignedMeasurementLists(numStreams),
        awvIds \in SUBSET AwvIds(numStreams) :
       /\ Cardinality(awvIds) <= MaxQueue
       /\ SuMimoMimoPhaseMeasurements(STA, mimoMeasurements,
            RankByMinStreamSnr(mimoMeasurements, awvIds, numStreams),
            numStreams, numStreams, numStreams)

SpecDrain == Init /\ [][NextDrain]_vars

(***************************************************************************)
(* The ordered run of the callbacks of the STA's MAC alone, from the       *)
(* association to the end of the MIMO phase.                               *)
(***************************************************************************)
NextInitiator ==
  \/ StationAssoicated
  \/ /\ macCalls.Perform_TXSS_TXOP > 0
     /\ SlsPending
     /\ SLSCompleted(STA, CHANNEL_ACCESS_DTI)
  \/ \E t \in DtiTimes : DataTransmissionIntervalStarted(t)
  \/ StartSuMimoBeamforming
  \/ /\ phase[STA] = "SisoDiscovery"
     /\ SuMimoSisoPhaseComplete(STA, NominalFeedback, numStreams, numStreams)
  \/ /\ phase[STA] = "MimoEvaluation"
     /\ SuMimoMimoPhaseComplete(STA)

(***************************************************************************)
(* The run of the STA's callbacks with the reports that feed the           *)
(* statistics.                                                             *)
(***************************************************************************)
(***************************************************************************)
(* The ordered run of the STA's MAC with everything it reports on the way: *)
(* the measurements of the SISO phase while the combination training is    *)
(* running, the candidates and the measurements of the MIMO phase while    *)
(* the MIMO evaluation is running, each zero or more times.                *)
(***************************************************************************)
NextExport ==
  \/ NextInitiator
  \/ /\ phase[STA] = "SisoDiscovery"
     /\ \E measurementsMap \in MeasurementMaps :
          SuMimoSisoPhaseMeasurements(STA, measurementsMap, 1)
  \/ /\ phase[STA] = "MimoEvaluation"
     /\ \E txCandidates \in CandidateLists, rxCandidates \in CandidateLists :
          SuMimoMimoCandidatesSelected(STA, txCandidates, rxCandidates)
  \/ /\ phase[STA] = "MimoEvaluation"
     /\ SuMimoMimoPhaseMeasurements(STA, NominalMimoMeasurements,
          RankByMinStreamSnr(NominalMimoMeasurements, NominalAwvIds, 2),
          numStreams, numStreams, 2)

SpecExport == Init /\ [][NextExport]_vars

(***************************************************************************)
(* The ordered run of the STA's training with the throughput sampler,      *)
(* until Simulator::Stop.                                                  *)
(***************************************************************************)
NextSampler ==
  \/ /\ ~stopped
     /\ NextInitiator
     /\ now' < StopTime
  \/ /\ ~stopped
     /\ \E thr \in Throughputs : CalculateThroughput(thr)
  \/ SimulatorStop

SpecSampler == InitSampler /\ [][NextSampler]_vars

NextStatistics ==
  \/ NextInitiator
  \/ MacTxDataFailed
  \/ PhyTxEnd
  \/ PhyRxDrop
  \/ PhyRxEnd

SpecStatistics == Init /\ [][NextStatistics]_vars

(***************************************************************************)
(* The ordered run in which the STA's MAC may also report the end of a     *)
(* phase while the session is not in that phase.                           *)
(***************************************************************************)
NextUnexpected ==
  \/ NextOrdered
  \/ /\ phase[STA] # "SisoDiscovery"
     /\ SuMimoSisoPhaseComplete(STA, NominalFeedback, numStreams, numStreams)
  \/ /\ phase[STA] # "MimoEvaluation"
     /\ SuMimoMimoPhaseComplete(STA)

SpecUnexpected == Init /\ [][NextUnexpected]_vars

(***************************************************************************)
(* The ordered run in which the MAC may report the end of the MIMO phase   *)
(* of the STA's session again after the session is Complete.               *)
(***************************************************************************)
NextRepeated ==
  \/ NextOrdered
  \/ /\ phase[STA] = "Complete"
     /\ SuMimoMimoPhaseComplete(STA)

SpecRepeated == Init /\ [][NextRepeated]_vars

(***************************************************************************)
(* The ordered run in which the MACs also complete sector sweeps of the    *)
(* beacon header interval after the data-period sweep was requested: the   *)
(* beacon header interval of every later beacon interval has its own       *)
(* association beamforming training.                                       *)
(***************************************************************************)
NextBeaconSweeps ==
  \/ NextOrdered
  \/ /\ macCalls.Perform_TXSS_TXOP > 0
     /\ SlsPending
     /\ \E side \in Sides : SLSCompleted(side, CHANNEL_ACCESS_BHI)

SpecBeaconSweeps == Init /\ [][NextBeaconSweeps]_vars

(***************************************************************************)
(* Vocabulary of the properties.                                           *)
(***************************************************************************)
\* the step is the run of the callback `kind`
Handled(kind) == lastEvent'.kind = kind

\* the calls of callback record `ev` to function `fn`, in order
CallsOf(ev, fn) ==
  LET IsFn(c) == c.fn = fn IN SelectSeq(ev.calls, IsFn)

\* the callback `ev` issued the Perform_TXSS_TXOP request
IssuesTxss(ev) == CallsOf(ev, "Perform_TXSS_TXOP") # <<>>

\* the callback `ev` issued the begin-combination-training request
IssuesBft(ev) == CallsOf(ev, "Schedule") # <<>>

\* begin-combination-training requests issued so far: those that have
\* reached the MAC and those still scheduled
BftIssued == macCalls.StartSuMimoBeamforming + Cardinality(scheduled)

\* data-period sector-sweep results recorded so far, of both endpoints
DataSlsResults == slsCompletions[AP] + slsCompletions[STA]

PhaseRank(p) ==
  CASE p = "Idle" -> 0
    [] p = "SectorSweep" -> 1
    [] p = "SisoDiscovery" -> 2
    [] p = "MimoCandidateSelection" -> 3
    [] p = "MimoEvaluation" -> 4
    [] p = "Complete" -> 5

(***************************************************************************)
(* C1.  The training phase of a session never moves to an earlier phase in *)
(* the order Idle < SectorSweep < SisoDiscovery < MimoCandidateSelection < *)
(* MimoEvaluation < Complete, whatever callback runs.  Stated for the run  *)
(* in which the MAC delivers the completions in phase order (SpecOrdered), *)
(* so that no out-of-order completion is needed to break it.               *)
(***************************************************************************)
C1_PhaseNeverRegresses ==
  [][\A s \in Sides : PhaseRank(phase'[s]) >= PhaseRank(phase[s])]_vars

(***************************************************************************)
(* C2.  Perform_TXSS_TXOP is issued at most once: at the first DTI start   *)
(* at which the STA is associated.  A DTI start while the STA is not       *)
(* associated issues nothing and leaves firstDti set; every DTI start      *)
(* after the request issues no further one.                                *)
(***************************************************************************)
C2_TxssOncePerSession ==
  /\ [](macCalls.Perform_TXSS_TXOP <= 1)
  /\ [](firstDti <=> macCalls.Perform_TXSS_TXOP = 0)
  /\ [][macCalls'.Perform_TXSS_TXOP # macCalls.Perform_TXSS_TXOP =>
          Handled("DataTransmissionIntervalStarted")]_vars
  /\ [][Handled("DataTransmissionIntervalStarted") =>
          IF associated /\ macCalls.Perform_TXSS_TXOP = 0
          THEN /\ lastEvent'.calls[1] = Call(STA, "Perform_TXSS_TXOP", <<AP>>)
               /\ Len(CallsOf(lastEvent', "Perform_TXSS_TXOP")) = 1
               /\ macCalls'.Perform_TXSS_TXOP = 1
               /\ ~firstDti'
          ELSE /\ ~IssuesTxss(lastEvent')
               /\ macCalls'.Perform_TXSS_TXOP = macCalls.Perform_TXSS_TXOP
               /\ firstDti' = firstDti]_vars

\* a DTI start after the request was issued, and one before the
\* association, both of which issued nothing
C2_Witness ==
  /\ lastEvent.kind = "DataTransmissionIntervalStarted"
  /\ ~IssuesTxss(lastEvent)
  /\ \/ associated /\ macCalls.Perform_TXSS_TXOP = 1 /\ ~firstDti
     \/ ~associated /\ macCalls.Perform_TXSS_TXOP = 0 /\ firstDti

(***************************************************************************)
(* C3.  Scenario A.  A DTI start when exactly 2 data-period sector-sweep   *)
(* results have been recorded, at a time after the 0.6 s dwell time and    *)
(* with the training not completed, issues the begin-combination-training  *)
(* request; a DTI start when fewer than 2 have been recorded does not.     *)
(***************************************************************************)
C3_ScenarioA ==
  [][Handled("DataTransmissionIntervalStarted") =>
       /\ (DataSlsResults = 2 /\ now' > DwellTime /\ ~suMimoCompleted)
            => IssuesBft(lastEvent')
       /\ DataSlsResults < 2 => ~IssuesBft(lastEvent')]_vars

(***************************************************************************)
(* C4.  Once 2 or more data-period sector-sweep results have been          *)
(* recorded, the first DTI start after the dwell time with the training    *)
(* not completed (no request issued yet) issues the                        *)
(* begin-combination-training request.  Stated for the runs without --csv, *)
(* where beamformedLinks counts the results.                               *)
(***************************************************************************)
C4_TriggerOnceThresholdReached ==
  [][(/\ Handled("DataTransmissionIntervalStarted")
      /\ ~csv
      /\ DataSlsResults >= BeamformedLinksThreshold
      /\ now' > DwellTime
      /\ ~suMimoCompleted
      /\ BftIssued = 0)
       => IssuesBft(lastEvent')]_vars

(***************************************************************************)
(* C5.  At most one begin-combination-training request is issued in a run. *)
(***************************************************************************)
C5_AtMostOneBftRequest == BftIssued <= 1

(***************************************************************************)
(* C6.  When a begin-combination-training request has been issued, each of *)
(* the two endpoints has completed at least one data-period sector sweep.  *)
(***************************************************************************)
C6_BothEndpointsSwept ==
  BftIssued > 0 => \A s \in Sides : slsCompletions[s] >= 1

(***************************************************************************)
(* C7.  One SISO-phase completion calls FindKBestCombinations exactly      *)
(* once, first, on the delivered feedback map with the configured k and    *)
(* the delivered nTx and nRx, and then issues exactly one                  *)
(* StartSuMimoMimoPhase request, last, whose shortlist is the list the     *)
(* selection returned; both on the MAC of the callback, in the one step.   *)
(***************************************************************************)
C7_SisoCompleteSelectsThenRequests ==
  [][Handled("SuMimoSisoPhaseComplete") =>
       LET ev == lastEvent'
           feedbackMap == ev.input[1]
           nTx == ev.input[2]
           nRx == ev.input[3]
           selections == CallsOf(ev, "FindKBestCombinations")
           requests == CallsOf(ev, "StartSuMimoMimoPhase")
       IN  /\ Len(selections) = 1
           /\ ev.calls[1] = selections[1]
           /\ selections[1].mac = ev.side
           /\ selections[1].args = <<kBestCombinations, nTx, nRx, feedbackMap>>
           /\ Len(requests) = 1
           /\ ev.calls[Len(ev.calls)] = requests[1]
           /\ requests[1].mac = ev.side
           /\ requests[1].args[1] = Peer(ev.side)
           /\ requests[1].args[2] =
                FindKBestCombinations(kBestCombinations, nTx, nRx, feedbackMap)
     ]_vars

\* a SISO completion with a tie in the feedback map, k = 1 and AWVs in use:
\* the request carries the one-entry shortlist
C7_Witness ==
  /\ lastEvent.kind = "SuMimoSisoPhaseComplete"
  /\ useAwvs
  /\ kBestCombinations = 1
  /\ lastEvent.input[1][<<1, 1, 1>>] = lastEvent.input[1][<<2, 1, 2>>]
  /\ lastEvent.input[2] # lastEvent.input[3]
  /\ Len(lastEvent.calls) = 3
  /\ lastEvent.calls[3].fn = "StartSuMimoMimoPhase"
  /\ lastEvent.calls[3].args[2] = <<(<<1, 1, 1>>)>>

(***************************************************************************)
(* C8.  A MIMO-phase completion marks the training completed; one that     *)
(* comes for a session that is already Complete leaves firstDti,           *)
(* beamformedLinks and suMimoCompleted as they are and is not processed as *)
(* a completion again but recorded as an anomaly: what it writes is none   *)
(* of the lines of the normal processing.                                  *)
(***************************************************************************)
NormalConsole ==
  {"", "associated", "completed SLS phase", "initiating SU-MIMO BFT",
   "finished SISO phase", "finished MIMO phase",
   "reporting SISO phase measurements", "reporting MIMO candidates Selection",
   "reporting MIMO phase measurements", "throughput"}

RecordsAnomaly(ev) == ev.console \notin NormalConsole

C8_SecondCompletionIsAnomaly ==
  [][Handled("SuMimoMimoPhaseComplete") =>
       /\ suMimoCompleted'
       /\ phase[lastEvent'.side] = "Complete" =>
            /\ UNCHANGED sequencer
            /\ RecordsAnomaly(lastEvent')]_vars

(***************************************************************************)
(* C9.  A phase completion that comes while its session is not in the      *)
(* phase that expects it (a MIMO-phase completion while not in             *)
(* MimoEvaluation, a SISO-phase completion while not in SisoDiscovery) is  *)
(* ignored: firstDti, beamformedLinks and suMimoCompleted stay as they are *)
(* and the callback makes no call.                                         *)
(***************************************************************************)
C9_OutOfPhaseCompletionIgnored ==
  [][(\/ /\ Handled("SuMimoMimoPhaseComplete")
         /\ phase[lastEvent'.side] # "MimoEvaluation"
      \/ /\ Handled("SuMimoSisoPhaseComplete")
         /\ phase[lastEvent'.side] # "SisoDiscovery")
       => /\ UNCHANGED sequencer
          /\ lastEvent'.calls = <<>>]_vars

C11_FailureOnlyCounts ==
  [][Handled("MacTxDataFailed") =>
       /\ macTxDataFailed' = macTxDataFailed + 1
       /\ UNCHANGED <<config, sampler, sequencer, transmittedPackets, droppedPackets,
                      receivedPackets, files, now, scheduled, associated,
                      macCalls, slsCompletions, phase>>
       /\ lastEvent'.calls = <<>>]_vars

\* a failure was reported while the combination training was running, and
\* the training went on to its end
C11_Witness ==
  /\ macTxDataFailed = MaxFailures
  /\ suMimoCompleted
  /\ phase[STA] = "Complete"
  /\ lastEvent.kind = "SuMimoMimoPhaseComplete"

(***************************************************************************)
(* C12.  Handling the MIMO-candidates-selected event only logs the two     *)
(* candidate sets: it leaves firstDti, beamformedLinks and                 *)
(* suMimoCompleted and every counter as they were, asks nothing of a MAC,  *)
(* and the only files it touches are the two candidate tables of its       *)
(* direction, which then hold one row per candidate.                       *)
(***************************************************************************)
C12_CandidatesOnlyLogged ==
  [][Handled("SuMimoMimoCandidatesSelected") =>
       LET side == lastEvent'.side
           txFile == TraceFile("SuMimoMimoTxCandidates", side)
           rxFile == TraceFile("SuMimoMimoRxCandidates", side)
       IN  /\ UNCHANGED <<sequencer, statistics, macCalls, scheduled, phase>>
           /\ lastEvent'.calls = <<>>
           /\ \A file \in FileNames \ {txFile, rxFile} :
                files'[file] = files[file]
           /\ Len(files'[txFile]) = 1 + Len(lastEvent'.input[1][1])
           /\ Len(files'[rxFile]) = 1 + Len(lastEvent'.input[2][1])]_vars

C12_Witness ==
  /\ lastEvent.kind = "SuMimoMimoCandidatesSelected"
  /\ beamformedLinks = BeamformedLinksThreshold
  /\ ~firstDti
  /\ macCalls.StartSuMimoBeamforming > 0
  /\ Len(files[TraceFile("SuMimoMimoTxCandidates", STA)]) = 1 + MaxCandidates
  /\ Len(lastEvent.input[1]) # Len(lastEvent.input[2])

(***************************************************************************)
(* C13.  Every trace file is append-only: whatever a step does, the        *)
(* content a file had before the step is a prefix of its content after it. *)
(***************************************************************************)
IsPrefix(before, after) ==
  /\ Len(before) <= Len(after)
  /\ SubSeq(after, 1, Len(before)) = before

C13_AppendOnly ==
  [][\A file \in FileNames : IsPrefix(files[file], files'[file])]_vars

(***************************************************************************)
(* C14.  As claimed: no trace file holds rows of two link directions, the  *)
(* direction of a row being its SRC_ID field.  As the program has it: a    *)
(* table of an SU-MIMO phase holds the rows of the direction its name      *)
(* carries and of no other, while the sector-sweep table is one stream     *)
(* for both directions, each row naming its direction in SRC_ID and        *)
(* DST_ID.                                                                 *)
(***************************************************************************)
\* the lines of a file after its header line
Rows(file) == IF files[file] = <<>> THEN <<>> ELSE Tail(files[file])

Directions(file) == {Rows(file)[i][1] : i \in 1..Len(Rows(file))}

Last(line) == line[Len(line)]

Written(file) ==
  {files'[file][i] : i \in 2..Len(files'[file])}
    \ {files[file][i] : i \in 2..Len(files[file])}

C15_TimestampLast ==
  [][\A file \in FileNames \ {ThroughputFile} :
       files'[file] # files[file] =>
         /\ Last(files'[file][1]) = "Timestamp"
         /\ \A row \in Written(file) : Last(row) = GetNanoSeconds(now')]_vars

(***************************************************************************)
(* C16.  Whatever ranking queue comes with the measurements of a MIMO      *)
(* phase, the rows written by draining it are in non-increasing order of   *)
(* their min_Stream_SNR field.                                             *)
(***************************************************************************)
MimoRows(side) == Rows(TraceFile("SuMimoMimoPhaseMeasurements", side))

\* the fields of a row of the MIMO measurement table that hold the SNRs of
\* the streams: those after the trace index and the two configurations
StreamFields(row, nTxAntennas, nRxAntennas) ==
  SubSeq(row, 3 + 3 * nTxAntennas + 3 * nRxAntennas + 1, Len(row) - 1)

C16_DrainedInRankOrder ==
  lastEvent.kind = "SuMimoMimoPhaseMeasurements" =>
    LET rows == MimoRows(lastEvent.side)
    IN  /\ Len(rows) = Cardinality(lastEvent.input[2])
        /\ \A i, j \in 1..Len(rows) : i < j => Last(rows[i]) >= Last(rows[j])

C16_Witness ==
  /\ lastEvent.kind = "SuMimoMimoPhaseMeasurements"
  /\ Len(MimoRows(STA)) = 2
  /\ StreamFields(MimoRows(STA)[1], numStreams, numStreams)
       = <<RatioToDb(12), RatioToDb(12), RatioToDb(12), RatioToDb(12)>>
  /\ StreamFields(MimoRows(STA)[2], numStreams, numStreams)
       = <<RatioToDb(20), RatioToDb(5), RatioToDb(20), RatioToDb(5)>>

Insufficient(feedbackMap, nTx, nRx) ==
  Cardinality(DOMAIN feedbackMap) < nTx * nRx

C19_InsufficientDataSignalled ==
  [][/\ Handled("SuMimoSisoPhaseComplete")
     /\ Insufficient(lastEvent'.input[1], lastEvent'.input[2],
                     lastEvent'.input[3])
     => /\ CallsOf(lastEvent', "StartSuMimoMimoPhase") = <<>>
        /\ RecordsAnomaly(lastEvent')]_vars

(***************************************************************************)
(* C20.  In a run with the sampler enabled, whatever the training does in  *)
(* between: exactly one sample is pending in every state; the samples      *)
(* taken so far are those of 0.1 s, 0.2 s, ... without a gap, and the      *)
(* pending one is due 100 ms after the last; the clock never passes the    *)
(* pending sample while the simulation runs, and when the simulation has   *)
(* stopped every sample due before the stop time has been taken.           *)
(***************************************************************************)
SampleTime(i) == FirstSampleTime + (i - 1) * SamplePeriod

C20_OneSamplePending ==
  activateApp =>
    LET rows == files[ThroughputFile]
    IN  /\ Len(samples) = 1
        /\ \A i \in 1..Len(rows) : rows[i][1] = Tenths(SampleTime(i))
        /\ samples[1] = SampleTime(Len(rows) + 1)
        /\ ~stopped => now <= samples[1]
        /\ stopped => samples[1] >= StopTime

C20_Witness ==
  /\ activateApp
  /\ stopped
  /\ suMimoCompleted
  /\ Len(files[ThroughputFile]) = StopTime \div SamplePeriod
  /\ Len(files[SlsFile]) > 1

(***************************************************************************)
(* C21.  The sampler and the training do not interfere.  A sample leaves   *)
(* firstDti, beamformedLinks and suMimoCompleted as they are, issues no    *)
(* request to a MAC and changes no phase, and what it does is fixed by     *)
(* the pending sample, the accumulators and the payload received, not by   *)
(* the sequencer: it runs at the time it was due, writes its one row and   *)
(* leaves one sample pending 100 ms later.  A callback of the training     *)
(* leaves totalRx, throughput, the pending sample and the throughput       *)
(* trace as they are.                                                      *)
(***************************************************************************)
TrainingCallbacks ==
  {"StationAssoicated", "SLSCompleted", "DataTransmissionIntervalStarted",
   "StartSuMimoBeamforming", "SuMimoSisoPhaseMeasurements",
   "SuMimoSisoPhaseComplete", "SuMimoMimoCandidatesSelected",
   "SuMimoMimoPhaseMeasurements", "SuMimoMimoPhaseComplete"}

C21_SamplerAndTrainingApart ==
  [][/\ Handled("CalculateThroughput") =>
          /\ UNCHANGED <<sequencer, scheduled, macCalls, phase>>
          /\ \A i \in 1..Len(lastEvent'.calls) :
               lastEvent'.calls[i].mac = "Simulator"
          /\ now' = samples[1]
          /\ samples' = <<samples[1] + SamplePeriod>>
          /\ files' = [files EXCEPT ![ThroughputFile] =
                         Append(@, <<Tenths(samples[1]),
                                     lastEvent'.input[1]>>)]
     /\ lastEvent'.kind \in TrainingCallbacks =>
          /\ UNCHANGED <<samples, totalRx, throughput, stopped>>
          /\ files'[ThroughputFile] = files[ThroughputFile]
    ]_vars

C21_Witness ==
  /\ lastEvent.kind = "CalculateThroughput"
  /\ lastEvent.input[1] > 0
  /\ phase[STA] = "SisoDiscovery"
  /\ beamformedLinks = BeamformedLinksThreshold
  /\ ~firstDti
  /\ Len(files[ThroughputFile]) > 1


C23_BeaconSweepNotCounted ==
  [][(Handled("SLSCompleted") /\ lastEvent'.input[1] # CHANNEL_ACCESS_DTI) =>
       /\ beamformedLinks' = beamformedLinks
       /\ Len(files'[SlsFile]) = Len(files[SlsFile]) + 1
       /\ IsPrefix(files[SlsFile], files'[SlsFile])
       /\ Last(files'[SlsFile])[1] = NodeId(lastEvent'.side) + 1
       /\ \A file \in FileNames \ {SlsFile} : files'[file] = files[file]
    ]_vars

C23_Witness ==
  /\ lastEvent.kind = "SLSCompleted"
  /\ lastEvent.input[1] = CHANNEL_ACCESS_BHI
  /\ ~csv
  /\ beamformedLinks = 1
  /\ slsCompletions[AP] + slsCompletions[STA] = 1
  /\ Len(files[SlsFile]) = 3


(***************************************************************************)
(* C24.  Every entry of the ranking queue delivered with the measurements  *)
(* of the MIMO phase has exactly one row in the MIMO measurement table,    *)
(* the entries whose min-stream SNR is zero or negative included: the      *)
(* table has as many data rows as the queue has entries, each entry's      *)
(* configuration is in the columns of exactly one row, and every pop       *)
(* shortens the queue by one, so that the loop ends.                       *)
(***************************************************************************)
ConfigurationOf(row, nTx, nRx) == SubSeq(row, 4, 3 + 3 * nTx + 3 * nRx)

ConfigurationColumns(awvId, nTx, nRx) ==
  ConfigColumns(GetMimoConfigFromTxAwvId(awvId[1], nTx), nTx)
    \o ConfigColumns(GetMimoConfigFromRxAwvId(awvId[2], nRx), nRx)

C24_OneRowPerEntry ==
  lastEvent.kind = "SuMimoMimoPhaseMeasurements" =>
    LET minSnr == lastEvent.input[2]
        nTx == lastEvent.input[3]
        nRx == lastEvent.input[4]
        rows == MimoRows(lastEvent.side)
    IN  /\ Len(rows) = Cardinality(minSnr)
        /\ \A entry \in minSnr :
             Cardinality({i \in 1..Len(rows) :
                            ConfigurationOf(rows[i], nTx, nRx)
                              = ConfigurationColumns(entry[2], nTx, nRx)}) = 1
        /\ \A queue \in SUBSET minSnr :
             queue # {} => /\ Pop(queue) \subseteq queue
                           /\ Cardinality(Pop(queue)) = Cardinality(queue) - 1

C24_Witness ==
  /\ lastEvent.kind = "SuMimoMimoPhaseMeasurements"
  /\ Cardinality(lastEvent.input[2]) = MaxQueue
  /\ \E entry \in lastEvent.input[2] : entry[1] = 0
  /\ \E entry \in lastEvent.input[2] : entry[1] < 0
  /\ Len(MimoRows(lastEvent.side)) = MaxQueue


(***************************************************************************)
(* C25.  After the completion of a SISO phase the SISO results table has   *)
(* exactly one row per entry of the feedback map, and the row of the       *)
(* entry keyed (txSectorId, rxAntennaId, txAntennaId) has the rxAntennaId  *)
(* in column RX_ANTENNA_ID, the txAntennaId in column TX_ANTENNA_ID and    *)
(* the txSectorId in column TX_SECTOR_ID.                                  *)
(***************************************************************************)
ColumnOf(header, name) == CHOOSE i \in 1..Len(header) : header[i] = name

SisoResultsFile(side) == TraceFile("SuMimoSisoPhaseResults", side)

C25_KeyInItsColumns ==
  lastEvent.kind = "SuMimoSisoPhaseComplete" =>
    LET feedbackMap == lastEvent.input[1]
        keys == Sorted(DOMAIN feedbackMap)
        header == files[SisoResultsFile(lastEvent.side)][1]
        rows == Rows(SisoResultsFile(lastEvent.side))
    IN  /\ Len(rows) = Cardinality(DOMAIN feedbackMap)
        /\ \A i \in 1..Len(rows) :
             /\ rows[i][ColumnOf(header, "RX_ANTENNA_ID")] = keys[i][2]
             /\ rows[i][ColumnOf(header, "TX_ANTENNA_ID")] = keys[i][3]
             /\ rows[i][ColumnOf(header, "TX_SECTOR_ID")] = keys[i][1]


(***************************************************************************)
(* C26.  The output-format flag does not influence control: a callback     *)
(* run in the same state on the same event with the csv flag the other way *)
(* leaves the same sequencer state.  For a sector-sweep completion, the    *)
(* only callback that reads the flag: the beamformed-link count after the  *)
(* step is the count the completion leaves with the flag flipped.          *)
(***************************************************************************)
C26_FlagDoesNotInfluenceControl ==
  [][Handled("SLSCompleted") =>
       beamformedLinks' =
         IF CountsAsBeamformedLink(~csv, lastEvent'.input[1])
         THEN (beamformedLinks + 1) % Uint8Modulus
         ELSE beamformedLinks]_vars


(***************************************************************************)
(* C27.  No begin-combination-training request reaches the MAC after the   *)
(* session is Complete: whenever the scheduled StartSuMimoBeamforming call *)
(* runs, suMimoCompleted is false, however the completions of the MIMO     *)
(* phase fall between the DTI start that scheduled the call and the call.  *)
(***************************************************************************)
C27_NoBftAfterComplete ==
  [][Handled("StartSuMimoBeamforming") => ~suMimoCompleted]_vars


(***************************************************************************)
(* The run in which the sweep the STA requested is followed by further     *)
(* data-period sweeps, enough for the uint8_t counter to pass its largest  *)
(* value and reach the threshold again: the completions come back to back  *)
(* after the request, the initiator's and the responder's in turn, before  *)
(* the next DTI starts.                                                    *)
(***************************************************************************)
MaxSweeps == Uint8Modulus + BeamformedLinksThreshold + 1

SweepEnd(completions) == IF completions % 2 = 0 THEN STA ELSE AP

NextWrap ==
  \/ StationAssoicated
  \/ /\ lastEvent.kind \in {"DataTransmissionIntervalStarted", "SLSCompleted"}
     /\ lastEvent.kind = "DataTransmissionIntervalStarted"
          => IssuesTxss(lastEvent)
     /\ DataSlsResults < MaxSweeps
     /\ SLSCompleted(SweepEnd(DataSlsResults), CHANNEL_ACCESS_DTI)
  \/ \E t \in DtiTimes : DataTransmissionIntervalStarted(t)
  \/ StartSuMimoBeamforming

SpecWrap == Init /\ [][NextWrap]_vars

(***************************************************************************)
(* C28.  In non-csv mode the beamformed-link count equals the number of    *)
(* data-period sector-sweep completions processed so far, whatever that    *)
(* number is, and once that number has passed the threshold the count is   *)
(* not the threshold again.                                                *)
(***************************************************************************)
C28_CountNeverWraps ==
  ~csv =>
    /\ beamformedLinks = DataSlsResults
    /\ DataSlsResults > BeamformedLinksThreshold
         => beamformedLinks # BeamformedLinksThreshold


(***************************************************************************)
(* C29.  In every exported table that has a header row, each data row has  *)
(* as many comma-separated fields as the header: the sector-sweep table,   *)
(* the SISO tables, the MIMO candidate tables and the MIMO measurement     *)
(* table.                                                                  *)
(***************************************************************************)
C29_RowsAsWideAsHeader ==
  \A file \in FileNames \ {ThroughputFile} :
    \A i \in 2..Len(files[file]) :
      Len(files[file][i]) = Len(files[file][1])


TypeOK ==
  /\ csv \in BOOLEAN /\ useAwvs \in BOOLEAN /\ activateApp \in BOOLEAN
  /\ stopped \in BOOLEAN
  /\ kBestCombinations \in KBestValues
  /\ firstDti \in BOOLEAN /\ suMimoCompleted \in BOOLEAN
  /\ beamformedLinks \in 0..(Uint8Modulus - 1)
  /\ now \in Nat
  /\ associated \in BOOLEAN
  /\ \A s \in Sides : phase[s] \in Phases

====
